---- MODULE Spec2Model ----
(***************************************************************************)
(* tysh: the interactive type shell of debugdb (src/bin/tysh.rs).          *)
(* The module models the command loop of main, the six command handlers    *)
(* and the text conversions they rely on, over one immutable snapshot of   *)
(* the type database.                                                      *)
(*                                                                         *)
(* Text is a sequence of one-character strings.  A machine word (usize,    *)
(* u64) is a little-endian tuple of 16-bit limbs, so that 64-bit values    *)
(* and their overflow are exact.  An Option is <<>> (None) or <<x>>        *)
(* (Some(x)).  Printed output is a sequence of tagged tuples, one per      *)
(* print statement of the source.                                          *)
(***************************************************************************)
EXTENDS Integers, Sequences, FiniteSets, TLC

VARIABLES
    db,        \* the snapshot parse_file returned (immutable after load)
    pc,        \* "reading": at rl.readline; "exited": main returned Ok(());
               \* "panicked": a handler panicked and the process aborted
    readline,  \* what the last rl.readline returned
    out,       \* what the last iteration of the loop printed
    calls,     \* the handler and the snapshot lookups of the last iteration
    history    \* the number of entries added to the editor's history

vars == <<db, pc, readline, out, calls, history>>

None == <<>>
Some(x) == <<x>>
IsSome(o) == Len(o) = 1
Unwrap(o) == o[1]

----------------------------------------------------------------------------
(* Text primitives of str.                                                 *)

Whitespace == {" ", "\t"}

starts_with(s, p) == Len(s) >= Len(p) /\ SubSeq(s, 1, Len(p)) = p

ends_with(s, p) == Len(s) >= Len(p) /\ SubSeq(s, Len(s) - Len(p) + 1, Len(s)) = p

(* &s[n..] with a 0-based byte index n *)
SliceFrom(s, n) == SubSeq(s, n + 1, Len(s))

(* &s[a..b] with 0-based byte indices *)
Slice(s, a, b) == SubSeq(s, a + 1, b)

contains(s, p) == \E i \in 0..(Len(s) - Len(p)) : SubSeq(s, i + 1, i + Len(p)) = p

RECURSIVE trim_start(_)
trim_start(s) == IF s # <<>> /\ Head(s) \in Whitespace THEN trim_start(Tail(s)) ELSE s

RECURSIVE trim_end(_)
trim_end(s) ==
    IF s # <<>> /\ s[Len(s)] \in Whitespace THEN trim_end(SubSeq(s, 1, Len(s) - 1)) ELSE s

trim(s) == trim_end(trim_start(s))

(* str::split_once(char::is_whitespace): None, or Some of the text before  *)
(* and after the first whitespace character.                               *)
split_once(s) ==
    LET ws == {i \in 1..Len(s) : s[i] \in Whitespace}
    IN  IF ws = {} THEN None
        ELSE LET i == CHOOSE k \in ws : \A j \in ws : k <= j
             IN  Some(<<SubSeq(s, 1, i - 1), SubSeq(s, i + 1, Len(s))>>)

----------------------------------------------------------------------------
(* Machine words: usize and u64 are 64 bits wide.                          *)

LimbBase == 2^16
WordLimbs == 64 \div 16
ZeroWord == [i \in 1..WordLimbs |-> 0]

(* checked_mul(radix) followed by checked_add(d): None on overflow.        *)
RECURSIVE MulAddFrom(_, _, _, _)
MulAddFrom(w, radix, carry, i) ==
    IF i > WordLimbs THEN (IF carry = 0 THEN Some(w) ELSE None)
    ELSE LET t == w[i] * radix + carry
         IN  MulAddFrom([w EXCEPT ![i] = t % LimbBase], radix, t \div LimbBase, i + 1)

CheckedMulAdd(w, radix, d) == MulAddFrom(w, radix, d, 1)

LowerDigits == <<"0","1","2","3","4","5","6","7","8","9","a","b","c","d","e","f">>
UpperDigits == <<"0","1","2","3","4","5","6","7","8","9","A","B","C","D","E","F">>

(* char::to_digit(radix) *)
to_digit(c, radix) ==
    LET hit == {i \in 1..radix : LowerDigits[i] = c \/ UpperDigits[i] = c}
    IN  IF hit = {} THEN None ELSE Some((CHOOSE i \in hit : TRUE) - 1)

RECURSIVE ParseDigits(_, _, _)
ParseDigits(s, radix, acc) ==
    IF s = <<>> THEN Some(acc)
    ELSE LET d == to_digit(Head(s), radix)
         IN  IF ~IsSome(d) THEN None
             ELSE LET nxt == CheckedMulAdd(acc, radix, Unwrap(d))
                  IN  IF ~IsSome(nxt) THEN None
                      ELSE ParseDigits(Tail(s), radix, Unwrap(nxt))

(* usize::from_str_radix / u64::from_str_radix / str::parse::<u64>: an     *)
(* optional '+' sign followed by at least one digit; Err is None.          *)
from_str_radix(s, radix) ==
    IF s = <<>> THEN None
    ELSE IF s = <<"+">> \/ s = <<"-">> THEN None
    ELSE ParseDigits(IF Head(s) = "+" THEN Tail(s) ELSE s, radix, ZeroWord)

(* The hexadecimal digits of a word, most significant first. *)
RECURSIVE NibblesFrom(_, _)
NibblesFrom(w, i) ==
    IF i = 0 THEN <<>>
    ELSE << w[i] \div 4096, (w[i] \div 256) % 16, (w[i] \div 16) % 16, w[i] % 16 >>
         \o NibblesFrom(w, i - 1)

RECURSIVE StripLeadingZeros(_)
StripLeadingZeros(ds) ==
    IF Len(ds) > 1 /\ Head(ds) = 0 THEN StripLeadingZeros(Tail(ds)) ELSE ds

RECURSIVE ZeroPad(_, _)
ZeroPad(s, width) == IF Len(s) < width THEN ZeroPad(<<"0">> \o s, width) ELSE s

(* format!("{:08x}", x) *)
FormatHex08(w) ==
    LET ds == StripLeadingZeros(NibblesFrom(w, WordLimbs))
    IN  ZeroPad([i \in 1..Len(ds) |-> LowerDigits[ds[i] + 1]], 8)

----------------------------------------------------------------------------
(* Global offsets (gimli::UnitSectionOffset) and their text.               *)

DebugInfoOffset(x) == [sec |-> "info", off |-> x]
DebugTypesOffset(x) == [sec |-> "types", off |-> x]

(* impl Display for Goff *)
GoffDisplay(g) ==
    IF g.sec = "info"
    THEN <<"<",".","d","e","b","u","g","_","i","n","f","o","+","0","x">> \o FormatHex08(g.off) \o <<">">>
    ELSE <<"<",".","d","e","b","u","g","_","t","y","p","e","s","+","0","x">> \o FormatHex08(g.off) \o <<">">>

(* parse_type_name with the section of the types branch mistaken *)
parse_type_name_InfoOnly(s) ==
    IF starts_with(s, <<"<",".","d","e","b","u","g","_">>) /\ ends_with(s, <<">">>)
    THEN LET rest == SliceFrom(s, 8)
         IN  IF starts_with(rest, <<"i","n","f","o","+","0","x">>)
             THEN LET num == Slice(rest, 7, Len(rest) - 1)
                      n == from_str_radix(num, 16)
                  IN  IF IsSome(n)
                      THEN [res |-> Some(<<"Goff", DebugInfoOffset(Unwrap(n))>>), out |-> <<>>]
                      ELSE [res |-> None, out |-> << <<"cant_parse_hex", num>> >>]
             ELSE IF starts_with(rest, <<"t","y","p","e","s","+","0","x">>)
             THEN LET num == Slice(rest, 8, Len(rest) - 1)
                      n == from_str_radix(num, 16)
                  IN  IF IsSome(n)
                      THEN [res |-> Some(<<"Goff", DebugInfoOffset(Unwrap(n))>>), out |-> <<>>]
                      ELSE [res |-> None, out |-> << <<"cant_parse_hex", num>> >>]
             ELSE [res |-> None, out |-> << <<"bad_offset_reference", s>> >>]
    ELSE [res |-> Some(<<"Name", s>>), out |-> <<>>]

(* parse_type_name: [res, out] where res is None, Some(<<"Name", s>>) or   *)
(* Some(<<"Goff", g>>) and out is what it printed.                         *)
parse_type_name(s) ==
    IF starts_with(s, <<"<",".","d","e","b","u","g","_">>) /\ ends_with(s, <<">">>)
    THEN LET rest == SliceFrom(s, 8)
         IN  IF starts_with(rest, <<"i","n","f","o","+","0","x">>)
             THEN LET num == Slice(rest, 7, Len(rest) - 1)
                      n == from_str_radix(num, 16)
                  IN  IF IsSome(n)
                      THEN [res |-> Some(<<"Goff", DebugInfoOffset(Unwrap(n))>>), out |-> <<>>]
                      ELSE [res |-> None, out |-> << <<"cant_parse_hex", num>> >>]
             ELSE IF starts_with(rest, <<"t","y","p","e","s","+","0","x">>)
             THEN LET num == Slice(rest, 8, Len(rest) - 1)
                      n == from_str_radix(num, 16)
                  IN  IF IsSome(n)
                      THEN [res |-> Some(<<"Goff", DebugTypesOffset(Unwrap(n))>>), out |-> <<>>]
                      ELSE [res |-> None, out |-> << <<"cant_parse_hex", num>> >>]
             ELSE [res |-> None, out |-> << <<"bad_offset_reference", s>> >>]
    ELSE [res |-> Some(<<"Name", s>>), out |-> <<>>]

----------------------------------------------------------------------------
(* The type graph (dwarfldr::Type and its parts).  A mapping (members,     *)
(* enumerators) is a function from its keys; values() visits it in         *)
(* ascending key order.  The variant mapping of VariantShape::Many is      *)
(* kept as the sequence of (optional discriminant, Variant) pairs in the   *)
(* mapping's own iteration order.                                          *)

Member(name, ty_goff, location, alignment, artificial) ==
    [name |-> name, ty_goff |-> ty_goff, location |-> location,
     alignment |-> alignment, artificial |-> artificial]

Variant(member) == [member |-> member]

Base(encoding, byte_size) ==
    [kind |-> "Base", encoding |-> encoding, byte_size |-> byte_size]

Pointer(name, ty_goff) == [kind |-> "Pointer", name |-> name, ty_goff |-> ty_goff]

Array(element_ty_goff, lower_bound, count) ==
    [kind |-> "Array", element_ty_goff |-> element_ty_goff,
     lower_bound |-> lower_bound, count |-> count]

Struct(name, byte_size, alignment, tuple_like, ttps, members) ==
    [kind |-> "Struct", name |-> name, byte_size |-> byte_size,
     alignment |-> alignment, tuple_like |-> tuple_like,
     template_type_parameters |-> ttps, members |-> members]

Enum(name, byte_size, alignment, ttps, shape) ==
    [kind |-> "Enum", name |-> name, byte_size |-> byte_size,
     alignment |-> alignment, template_type_parameters |-> ttps, shape |-> shape]

CEnum(name, byte_size, alignment, enumerators) ==
    [kind |-> "CEnum", name |-> name, byte_size |-> byte_size,
     alignment |-> alignment, enumerators |-> enumerators]

Union(name) == [kind |-> "Union", name |-> name]

Subroutine(formal_parameters, return_ty_goff) ==
    [kind |-> "Subroutine", formal_parameters |-> formal_parameters,
     return_ty_goff |-> return_ty_goff]

ShapeZero == [tag |-> "Zero"]
ShapeOne(v) == [tag |-> "One", v |-> v]
ShapeMany(member, variants) == [tag |-> "Many", member |-> member, variants |-> variants]

(* The keys of a mapping in ascending order. *)
RECURSIVE SortedKeys(_)
SortedKeys(S) ==
    IF S = {} THEN <<>>
    ELSE LET m == CHOOSE k \in S : \A j \in S : k <= j
         IN  <<m>> \o SortedKeys(S \ {m})

(* BTreeMap::values() *)
MapValues(m) == LET ks == SortedKeys(DOMAIN m) IN [i \in 1..Len(ks) |-> m[ks[i]]]

(* BTreeMap::iter(): (key, value) pairs *)
MapPairs(m) == LET ks == SortedKeys(DOMAIN m) IN [i \in 1..Len(ks) |-> <<ks[i], m[ks[i]]>>]

----------------------------------------------------------------------------
(* The queries of the snapshot (dwarfldr::Types).  A snapshot is           *)
(* [types, rows]: types is the sequence of [goff, name, ty] in the         *)
(* snapshot's iteration order, rows the line table.                        *)

types(d) == [i \in 1..Len(d.types) |-> <<d.types[i].goff, d.types[i].ty>>]

type_count(d) == Len(d.types)

type_from_goff(d, g) ==
    LET hit == {i \in 1..Len(d.types) : d.types[i].goff = g}
    IN  IF hit = {} THEN None ELSE Some(d.types[CHOOSE i \in hit : TRUE].ty)

name_from_goff(d, g) ==
    LET hit == {i \in 1..Len(d.types) : d.types[i].goff = g}
    IN  IF hit = {} THEN None ELSE d.types[CHOOSE i \in hit : TRUE].name

types_by_name(d, n) ==
    LET m == SelectSeq(d.types, LAMBDA e : e.name = Some(n))
    IN  [i \in 1..Len(m) |-> <<m[i].goff, m[i].ty>>]

lookup_line_row(d, addr) ==
    LET hit == {i \in 1..Len(d.rows) : d.rows[i].addr = addr}
    IN  IF hit = {} THEN None ELSE Some(d.rows[CHOOSE i \in hit : TRUE].row)

(* Type::byte_size and Type::alignment *)
RECURSIVE byte_size(_, _)
byte_size(d, t) ==
    CASE t.kind = "Base" -> Some(t.byte_size)
      [] t.kind = "Pointer" -> Some(8)
      [] t.kind = "Array" ->
            LET e == type_from_goff(d, t.element_ty_goff)
            IN  IF ~IsSome(e) \/ ~IsSome(t.count) THEN None
                ELSE LET es == byte_size(d, Unwrap(e))
                     IN  IF IsSome(es) THEN Some(Unwrap(es) * Unwrap(t.count)) ELSE None
      [] t.kind \in {"Struct", "Enum", "CEnum"} -> Some(t.byte_size)
      [] OTHER -> None

RECURSIVE alignment(_, _)
alignment(d, t) ==
    CASE t.kind = "Base" -> Some(t.byte_size)
      [] t.kind = "Pointer" -> Some(8)
      [] t.kind = "Array" ->
            LET e == type_from_goff(d, t.element_ty_goff)
            IN  IF IsSome(e) THEN alignment(d, Unwrap(e)) ELSE None
      [] t.kind \in {"Struct", "Enum"} -> t.alignment
      [] t.kind = "CEnum" -> Some(t.alignment)
      [] OTHER -> None

(* impl Display for NamedGoff, without the terminal styling *)
NamedGoff(d, g) ==
    LET nm == name_from_goff(d, g)
        n == IF IsSome(nm) THEN Unwrap(nm) ELSE <<"<","a","n","o","n","y","m","o","u","s"," ","t","y","p","e",">">>
    IN  IF g.sec = "info"
        THEN n \o <<" ","<",".","d","e","b","u","g","_","i","n","f","o","+","0","x">> \o FormatHex08(g.off) \o <<">">>
        ELSE n \o <<" ","<",".","d","e","b","u","g","_","t","y","p","e","s","+","0","x">> \o FormatHex08(g.off) \o <<">">>

----------------------------------------------------------------------------
(* What a piece of code printed, and whether it ran to its end (ok) or     *)
(* stopped in a panic (an unwrap of None).                                 *)

Done(o) == [out |-> o, ok |-> TRUE]
Panicked(o) == [out |-> o, ok |-> FALSE]
Then(a, b) == IF a.ok THEN [out |-> a.out \o b.out, ok |-> b.ok] ELSE a

----------------------------------------------------------------------------
(* list *)

RECURSIVE ListFrom(_, _, _)
ListFrom(d, args, i) ==
    IF i > Len(d.types) THEN <<>>
    ELSE LET goff == types(d)[i][1]
             name == name_from_goff(d, goff)
             skip == args # <<>> /\ IsSome(name) /\ ~contains(Unwrap(name), args)
         IN  (IF skip THEN <<>> ELSE << <<"list_line", NamedGoff(d, goff)>> >>)
             \o ListFrom(d, args, i + 1)

cmd_list(d, args) == [out |-> ListFrom(d, args, 1), ok |-> TRUE, calls |-> <<>>]

----------------------------------------------------------------------------
(* info: the query callback *)

InfoTtps(d, ttps, title) ==
    IF ttps = <<>> THEN <<>>
    ELSE <<title>> \o [i \in 1..Len(ttps) |->
                          <<"info_ttp", ttps[i].name, NamedGoff(d, ttps[i].ty_goff)>>]

RECURSIVE InfoMembers(_, _, _)
InfoMembers(d, ms, i) ==
    IF i > Len(ms) THEN <<>>
    ELSE LET mem == ms[i]
         IN  << IF IsSome(mem.name)
                THEN <<"info_member", Unwrap(mem.name), NamedGoff(d, mem.ty_goff)>>
                ELSE <<"info_member_unnamed", NamedGoff(d, mem.ty_goff)>>,
                <<"info_member_offset", mem.location>> >>
             \o (IF IsSome(mem.alignment)
                 THEN << <<"info_member_aligned", Unwrap(mem.alignment)>> >> ELSE <<>>)
             \o (IF mem.artificial THEN << <<"info_member_artificial">> >> ELSE <<>>)
             \o InfoMembers(d, ms, i + 1)

InfoVariant(d, first, var) ==
    << first,
       <<"info_contains_type", NamedGoff(d, var.member.ty_goff)>>,
       <<"info_at_offset", var.member.location>> >>
    \o (IF IsSome(var.member.alignment)
        THEN << <<"info_aligned", Unwrap(var.member.alignment)>> >> ELSE <<>>)

(* lines 319-328: the variants with an explicit discriminant value *)
RECURSIVE InfoExplicit(_, _, _)
InfoExplicit(d, variants, i) ==
    IF i > Len(variants) THEN <<>>
    ELSE (IF IsSome(variants[i][1])
          THEN InfoVariant(d, <<"info_when_discriminator", Unwrap(variants[i][1])>>,
                           variants[i][2])
          ELSE <<>>)
         \o InfoExplicit(d, variants, i + 1)

(* lines 330-339: the default variant *)
RECURSIVE InfoDefault(_, _, _)
InfoDefault(d, variants, i) ==
    IF i > Len(variants) THEN <<>>
    ELSE (IF ~IsSome(variants[i][1])
          THEN InfoVariant(d, <<"info_any_other_discriminator">>, variants[i][2])
          ELSE <<>>)
         \o InfoDefault(d, variants, i + 1)

InfoShape(d, shape) ==
    CASE shape.tag = "Zero" -> << <<"info_empty_enum">> >>
      [] shape.tag = "One" ->
            << <<"info_single_variant">>,
               <<"info_content_type", NamedGoff(d, shape.v.member.ty_goff)>>,
               <<"info_offset", shape.v.member.location>> >>
            \o (IF IsSome(shape.v.member.alignment)
                THEN << <<"info_aligned", Unwrap(shape.v.member.alignment)>> >> ELSE <<>>)
            \o (IF ~shape.v.member.artificial
                THEN << <<"info_not_artificial">> >> ELSE <<>>)
      [] shape.tag = "Many" ->
            LET dname == name_from_goff(d, shape.member.ty_goff)
            IN  << IF IsSome(dname)
                   THEN <<"info_variants_discriminated_by", Len(shape.variants),
                          Unwrap(dname), shape.member.location>>
                   ELSE <<"info_variants_discriminated_by_anonymous",
                          Len(shape.variants), shape.member.location>> >>
                \o (IF ~shape.member.artificial
                    THEN << <<"info_not_artificial">> >> ELSE <<>>)
                \o InfoExplicit(d, shape.variants, 1)
                \o InfoDefault(d, shape.variants, 1)

InfoAlignment(a) ==
    IF IsSome(a) THEN <<"info_alignment", Unwrap(a)>> ELSE <<"info_not_aligned">>

q_info(d, t) ==
    Done(
    CASE t.kind = "Base" ->
            << <<"info_base_type">>, <<"info_encoding", t.encoding>>,
               <<"info_byte_size", t.byte_size>> >>
      [] t.kind = "Pointer" ->
            << <<"info_pointer_type">>, <<"info_points_to", NamedGoff(d, t.ty_goff)>> >>
      [] t.kind = "Array" ->
            << <<"info_array_type">>,
               <<"info_element_type", NamedGoff(d, t.element_ty_goff)>>,
               <<"info_lower_bound", t.lower_bound>>,
               IF IsSome(t.count) THEN <<"info_count", Unwrap(t.count)>>
               ELSE <<"info_size_not_given">> >>
      [] t.kind = "Struct" ->
            << IF t.tuple_like THEN <<"info_struct_type_tuple_like">>
               ELSE <<"info_struct_type">>,
               <<"info_byte_size", t.byte_size>>,
               InfoAlignment(t.alignment) >>
            \o InfoTtps(d, t.template_type_parameters, <<"info_template_type_parameters">>)
            \o (IF DOMAIN t.members # {}
                THEN << <<"info_members">> >> \o InfoMembers(d, MapValues(t.members), 1)
                ELSE << <<"info_no_members">> >>)
      [] t.kind = "Enum" ->
            << <<"info_enum_type">>, <<"info_byte_size", t.byte_size>>,
               InfoAlignment(t.alignment) >>
            \o InfoTtps(d, t.template_type_parameters, <<"info_type_parameters">>)
            \o InfoShape(d, t.shape)
      [] t.kind = "CEnum" ->
            LET es == MapValues(t.enumerators)
            IN  << <<"info_c_like_enum_type">>, <<"info_byte_size", t.byte_size>>,
                   <<"info_alignment", t.alignment>>,
                   <<"info_values_defined", Len(es)>> >>
                \o [i \in 1..Len(es) |-> <<"info_enumerator", es[i].name, es[i].const_value>>]
      [] OTHER -> <<>>)

----------------------------------------------------------------------------
(* sizeof, alignof: the query callbacks *)

(* sizeof with an absent size coerced to 0 *)
q_sizeof_UnwrapOrZero(d, t) ==
    LET sz == byte_size(d, t)
    IN  Done(<< <<"sizeof_bytes", IF IsSome(sz) THEN Unwrap(sz) ELSE 0>> >>)

q_sizeof(d, t) ==
    LET sz == byte_size(d, t)
    IN  Done(<< IF IsSome(sz) THEN <<"sizeof_bytes", Unwrap(sz)>> ELSE <<"sizeof_unsized">> >>)

q_alignof(d, t) ==
    LET a == alignment(d, t)
    IN  Done(<< IF IsSome(a) THEN <<"alignof_bytes", Unwrap(a)>>
                ELSE <<"alignof_no_information">> >>)

----------------------------------------------------------------------------
(* def: the query callback *)

(* the table with the arm for byte size 0 left out *)
BaseName_NoUnit(encoding, size) ==
    CASE encoding = "Unsigned" /\ size = 1 -> <<"def_prim", <<"u","8">>>>
      [] encoding = "Unsigned" /\ size = 2 -> <<"def_prim", <<"u","1","6">>>>
      [] encoding = "Unsigned" /\ size = 4 -> <<"def_prim", <<"u","3","2">>>>
      [] encoding = "Unsigned" /\ size = 8 -> <<"def_prim", <<"u","6","4">>>>
      [] encoding = "Unsigned" /\ size = 16 -> <<"def_prim", <<"u","1","2","8">>>>
      [] encoding = "Signed" /\ size = 1 -> <<"def_prim", <<"i","8">>>>
      [] encoding = "Signed" /\ size = 2 -> <<"def_prim", <<"i","1","6">>>>
      [] encoding = "Signed" /\ size = 4 -> <<"def_prim", <<"i","3","2">>>>
      [] encoding = "Signed" /\ size = 8 -> <<"def_prim", <<"i","6","4">>>>
      [] encoding = "Signed" /\ size = 16 -> <<"def_prim", <<"i","1","2","8">>>>
      [] encoding = "Float" /\ size = 4 -> <<"def_prim", <<"f","3","2">>>>
      [] encoding = "Float" /\ size = 8 -> <<"def_prim", <<"f","6","4">>>>
      [] encoding = "Boolean" /\ size = 1 -> <<"def_prim", <<"b","o","o","l">>>>
      [] encoding = "UnsignedChar" /\ size = 4 -> <<"def_prim", <<"c","h","a","r">>>>
      [] encoding = "UnsignedChar" /\ size = 1 -> <<"def_prim", <<"c","_","u","c","h","a","r">>>>
      [] encoding = "SignedChar" /\ size = 1 -> <<"def_prim", <<"c","_","s","c","h","a","r">>>>
      [] OTHER -> <<"def_prim_unhandled", encoding, size>>

(* lines 387-407: the primitive name of a Base entry *)
BaseName(encoding, size) ==
    CASE size = 0 -> <<"def_prim", <<"(",")">>>>
      [] encoding = "Unsigned" /\ size = 1 -> <<"def_prim", <<"u","8">>>>
      [] encoding = "Unsigned" /\ size = 2 -> <<"def_prim", <<"u","1","6">>>>
      [] encoding = "Unsigned" /\ size = 4 -> <<"def_prim", <<"u","3","2">>>>
      [] encoding = "Unsigned" /\ size = 8 -> <<"def_prim", <<"u","6","4">>>>
      [] encoding = "Unsigned" /\ size = 16 -> <<"def_prim", <<"u","1","2","8">>>>
      [] encoding = "Signed" /\ size = 1 -> <<"def_prim", <<"i","8">>>>
      [] encoding = "Signed" /\ size = 2 -> <<"def_prim", <<"i","1","6">>>>
      [] encoding = "Signed" /\ size = 4 -> <<"def_prim", <<"i","3","2">>>>
      [] encoding = "Signed" /\ size = 8 -> <<"def_prim", <<"i","6","4">>>>
      [] encoding = "Signed" /\ size = 16 -> <<"def_prim", <<"i","1","2","8">>>>
      [] encoding = "Float" /\ size = 4 -> <<"def_prim", <<"f","3","2">>>>
      [] encoding = "Float" /\ size = 8 -> <<"def_prim", <<"f","6","4">>>>
      [] encoding = "Boolean" /\ size = 1 -> <<"def_prim", <<"b","o","o","l">>>>
      [] encoding = "UnsignedChar" /\ size = 4 -> <<"def_prim", <<"c","h","a","r">>>>
      [] encoding = "UnsignedChar" /\ size = 1 -> <<"def_prim", <<"c","_","u","c","h","a","r">>>>
      [] encoding = "SignedChar" /\ size = 1 -> <<"def_prim", <<"c","_","s","c","h","a","r">>>>
      [] OTHER -> <<"def_prim_unhandled", encoding, size>>

(* lines 436-440: the members of a tuple-like struct *)
RECURSIVE DefTupleMembers(_, _, _)
DefTupleMembers(d, ms, i) ==
    IF i > Len(ms) THEN Done(<<>>)
    ELSE LET tn == name_from_goff(d, ms[i].ty_goff)
         IN  IF ~IsSome(tn) THEN Panicked(<<>>)
             ELSE Then(Done(<< <<"def_tuple_member", Unwrap(tn)>> >>),
                       DefTupleMembers(d, ms, i + 1))

(* lines 442-450: the members of a struct with named fields *)
RECURSIVE DefNamedMembers(_, _, _)
DefNamedMembers(d, ms, i) ==
    IF i > Len(ms) THEN Done(<<>>)
    ELSE LET tn == name_from_goff(d, ms[i].ty_goff)
         IN  IF ~IsSome(tn) THEN Panicked(<<>>)
             ELSE Then(Done(<< IF IsSome(ms[i].name)
                               THEN <<"def_named_member", Unwrap(ms[i].name), Unwrap(tn)>>
                               ELSE <<"def_named_member", <<"A","N","O","N">>, Unwrap(tn)>> >>),
                       DefNamedMembers(d, ms, i + 1))

(* lines 432-452: the body of a struct *)
DefStructBody(d, s) ==
    IF DOMAIN s.members = {} THEN Done(<< <<"def_struct_semicolon">> >>)
    ELSE IF s.tuple_like
    THEN Then(Done(<< <<"def_struct_paren_open">> >>),
         Then(DefTupleMembers(d, MapValues(s.members), 1),
              Done(<< <<"def_struct_paren_close">> >>)))
    ELSE Then(Done(<< <<"def_struct_brace_open">> >>),
         Then(DefNamedMembers(d, MapValues(s.members), 1),
              Done(<< <<"def_struct_brace_close">> >>)))

(* lines 480-483 and 514-517: the payload members of a tuple-like variant *)
RECURSIVE VariantTupleMembers(_, _, _)
VariantTupleMembers(d, ms, i) ==
    IF i > Len(ms) THEN Done(<<>>)
    ELSE LET mtn == name_from_goff(d, ms[i].ty_goff)
         IN  IF ~IsSome(mtn) THEN Panicked(<<>>)
             ELSE Then(Done(<< <<"def_variant_tuple_member", Unwrap(mtn)>> >>),
                       VariantTupleMembers(d, ms, i + 1))

(* lines 487-490 and 521-524: the payload members of a variant with named  *)
(* fields; both unwraps are evaluated before anything is printed.          *)
RECURSIVE VariantNamedMembers(_, _, _)
VariantNamedMembers(d, ms, i) ==
    IF i > Len(ms) THEN Done(<<>>)
    ELSE LET mtn == name_from_goff(d, ms[i].ty_goff)
         IN  IF ~IsSome(mtn) \/ ~IsSome(ms[i].name) THEN Panicked(<<>>)
             ELSE Then(Done(<< <<"def_variant_named_member", Unwrap(ms[i].name),
                                 Unwrap(mtn)>> >>),
                       VariantNamedMembers(d, ms, i + 1))

(* lines 476-496 and 510-530: the inline body of a variant's payload *)
VariantBody(d, mty) ==
    IF mty.kind = "Struct"
    THEN IF DOMAIN mty.members = {} THEN Done(<<>>)
         ELSE IF mty.tuple_like
         THEN Then(Done(<< <<"def_variant_paren_open">> >>),
              Then(VariantTupleMembers(d, MapValues(mty.members), 1),
                   Done(<< <<"def_variant_paren_close">> >>)))
         ELSE Then(Done(<< <<"def_variant_brace_open">> >>),
              Then(VariantNamedMembers(d, MapValues(mty.members), 1),
                   Done(<< <<"def_variant_brace_close">> >>)))
    ELSE Done(<< <<"def_variant_unexpected_weirdness">> >>)

(* lines 468-498 and 502-532: one variant *)
DefVariant(d, var) ==
    Then(Done(<< IF IsSome(var.member.name)
                 THEN <<"def_variant_name", Unwrap(var.member.name)>>
                 ELSE <<"def_variant_name", <<"A","N","O","N">>>> >>),
         LET mty == type_from_goff(d, var.member.ty_goff)
         IN  IF ~IsSome(mty) THEN Panicked(<<>>)
             ELSE Then(VariantBody(d, Unwrap(mty)), Done(<< <<"def_variant_comma">> >>)))

(* lines 501-533: for var in variants.values() *)
RECURSIVE DefVariants(_, _, _)
DefVariants(d, variants, i) ==
    IF i > Len(variants) THEN Done(<<>>)
    ELSE Then(DefVariant(d, variants[i][2]), DefVariants(d, variants, i + 1))

DefShape(d, shape) ==
    CASE shape.tag = "Zero" -> Done(<<>>)
      [] shape.tag = "One" -> DefVariant(d, shape.v)
      [] shape.tag = "Many" -> DefVariants(d, shape.variants, 1)

DefTtps(ttps) ==
    IF ttps = <<>> THEN <<>>
    ELSE << <<"def_lt">> >> \o [i \in 1..Len(ttps) |-> <<"def_ttp", ttps[i].name>>]
         \o << <<"def_gt">> >>

RECURSIVE DefParams(_, _, _)
DefParams(d, ps, i) ==
    IF i > Len(ps) THEN Done(<<>>)
    ELSE LET pn == name_from_goff(d, ps[i])
         IN  IF ~IsSome(pn) THEN Panicked(<<>>)
             ELSE Then(Done(<< <<"def_param", Unwrap(pn)>> >>), DefParams(d, ps, i + 1))

q_def(d, t) ==
    Then(Done(<< <<"def_newline">> >>),
    CASE t.kind = "Base" ->
            Done(<< <<"def_type_alias">>, BaseName(t.encoding, t.byte_size),
                    <<"def_semicolon">> >>)
      [] t.kind = "Pointer" -> Done(<< <<"def_pointer", t.name>> >>)
      [] t.kind = "Array" ->
            LET name == name_from_goff(d, t.element_ty_goff)
            IN  IF ~IsSome(name) THEN Panicked(<<>>)
                ELSE IF IsSome(t.count)
                THEN Done(<< <<"def_array_counted", Unwrap(name), Unwrap(t.count)>> >>)
                ELSE Done(<< <<"def_array", Unwrap(name)>> >>)
      [] t.kind = "Struct" ->
            Then(Done(<< <<"def_struct", t.name>> >> \o DefTtps(t.template_type_parameters)),
                 DefStructBody(d, t))
      [] t.kind = "Enum" ->
            Then(Done(<< <<"def_enum", t.name>> >> \o DefTtps(t.template_type_parameters)
                      \o << <<"def_enum_open">> >>),
            Then(DefShape(d, t.shape), Done(<< <<"def_enum_close">> >>)))
      [] t.kind = "CEnum" ->
            LET es == MapPairs(t.enumerators)
            IN  Done(<< <<"def_cenum_open", t.name>> >>
                     \o [i \in 1..Len(es) |-> <<"def_enumerator", es[i][2].name, es[i][1]>>]
                     \o << <<"def_cenum_close">> >>)
      [] t.kind = "Union" -> Done(<<>>)
      [] t.kind = "Subroutine" ->
            Then(Done(<< <<"def_fn_open">> >>),
            Then(DefParams(d, t.formal_parameters, 1),
                 IF IsSome(t.return_ty_goff)
                 THEN LET rn == name_from_goff(d, Unwrap(t.return_ty_goff))
                      IN  IF ~IsSome(rn) THEN Panicked(<<>>)
                          ELSE Done(<< <<"def_fn_returns", Unwrap(rn)>>,
                                       <<"def_fn_body">> >>)
                 ELSE Done(<< <<"def_fn_no_return">>, <<"def_fn_body">> >>))))

----------------------------------------------------------------------------
(* The query fan-out shared by info, def, sizeof and alignof.              *)

(* The types of a snapshot, the domain of a query callback. *)
TypesOf(d) == {d.types[i].ty : i \in 1..Len(d.types)}

(* the loop printing the blank line only between entries *)
RECURSIVE QueryLoop_BlankBetween(_, _, _, _, _)
QueryLoop_BlankBetween(d, q, ts, many, i) ==
    IF i > Len(ts) THEN [out |-> <<>>, ok |-> TRUE, calls |-> <<>>]
    ELSE LET goff == ts[i][1]
             pre == (IF many /\ i > 1 THEN << <<"blank">> >> ELSE <<>>)
                    \o << <<"header", NamedGoff(d, goff)>> >>
             r == q[ts[i][2]]
         IN  IF ~r.ok
             THEN [out |-> pre \o r.out, ok |-> FALSE, calls |-> << <<"q", goff>> >>]
             ELSE LET rst == QueryLoop_BlankBetween(d, q, ts, many, i + 1)
                  IN  [out |-> pre \o r.out \o rst.out, ok |-> rst.ok,
                       calls |-> << <<"q", goff>> >> \o rst.calls]

(* lines 211-215: for (goff, t) in types *)
RECURSIVE QueryLoop(_, _, _, _, _)
QueryLoop(d, q, ts, many, i) ==
    IF i > Len(ts) THEN [out |-> <<>>, ok |-> TRUE, calls |-> <<>>]
    ELSE LET goff == ts[i][1]
             pre == (IF many THEN << <<"blank">> >> ELSE <<>>)
                    \o << <<"header", NamedGoff(d, goff)>> >>
             r == q[ts[i][2]]
         IN  IF ~r.ok
             THEN [out |-> pre \o r.out, ok |-> FALSE, calls |-> << <<"q", goff>> >>]
             ELSE LET rst == QueryLoop(d, q, ts, many, i + 1)
                  IN  [out |-> pre \o r.out \o rst.out, ok |-> rst.ok,
                       calls |-> << <<"q", goff>> >> \o rst.calls]

(* lines 196-200: what is printed and looked up when nothing matches *)
NoTypesFound_Silent(p, lookup) == [out |-> p.out, ok |-> TRUE, calls |-> lookup]

NoTypesFound(p, lookup) ==
    [out |-> p.out \o << <<"no_types_found">> >>, ok |-> TRUE, calls |-> lookup]

simple_query_cmd(d, args, q) ==
    LET type_name == trim(args)
        p == parse_type_name(type_name)
    IN  IF ~IsSome(p.res) THEN [out |-> p.out, ok |-> TRUE, calls |-> <<>>]
        ELSE LET parsed == Unwrap(p.res)
                 ts == IF parsed[1] = "Name"
                       THEN types_by_name(d, parsed[2])
                       ELSE LET t == type_from_goff(d, parsed[2])
                            IN  IF IsSome(t) THEN << <<parsed[2], Unwrap(t)>> >> ELSE <<>>
                 lookup == IF parsed[1] = "Name"
                           THEN << <<"types_by_name", parsed[2]>> >>
                           ELSE << <<"type_from_goff", parsed[2]>> >>
             IN  IF Len(ts) = 0
                 THEN NoTypesFound(p, lookup)
                 ELSE LET many == Len(ts) > 1
                          note == IF many THEN << <<"note_types_found", Len(ts)>> >>
                                  ELSE <<>>
                          r == QueryLoop(d, q, ts, many, 1)
                      IN  [out |-> p.out \o note \o r.out, ok |-> r.ok,
                           calls |-> lookup \o r.calls]

(* Each command passes its callback q, a function of the type visited. *)
cmd_info(d, args) == simple_query_cmd(d, args, [t \in TypesOf(d) |-> q_info(d, t)])
cmd_sizeof(d, args) == simple_query_cmd(d, args, [t \in TypesOf(d) |-> q_sizeof(d, t)])
cmd_alignof(d, args) == simple_query_cmd(d, args, [t \in TypesOf(d) |-> q_alignof(d, t)])
cmd_def(d, args) == simple_query_cmd(d, args, [t \in TypesOf(d) |-> q_def(d, t)])

----------------------------------------------------------------------------
(* addr2line *)

(* the hexadecimal branch handing the whole argument to the parser *)
parse_address_NoSlice(args) ==
    IF starts_with(args, <<"0","x">>)
    THEN from_str_radix(args, 16)
    ELSE from_str_radix(args, 10)

(* lines 568-580: Some(address), or None where the code reports and returns *)
parse_address(args) ==
    IF starts_with(args, <<"0","x">>)
    THEN from_str_radix(SliceFrom(args, 2), 16)
    ELSE from_str_radix(args, 10)

cmd_addr2line(d, args) ==
    LET a == parse_address(args)
    IN  IF ~IsSome(a)
        THEN [out |-> << <<"cant_parse_address", args>> >>, ok |-> TRUE, calls |-> <<>>]
        ELSE LET addr == Unwrap(a)
                 row == lookup_line_row(d, addr)
             IN  [out |-> IF IsSome(row)
                          THEN << <<"a2l_file", Unwrap(row).file>>,
                                  IF IsSome(Unwrap(row).line)
                                  THEN <<"a2l_line", Unwrap(Unwrap(row).line)>>
                                  ELSE <<"a2l_line_unknown">>,
                                  IF IsSome(Unwrap(row).column)
                                  THEN <<"a2l_column", Unwrap(Unwrap(row).column)>>
                                  ELSE <<"a2l_column_unknown">>,
                                  <<"a2l_newline">> >>
                          ELSE << <<"no_line_number_information">> >>,
                  ok |-> TRUE,
                  calls |-> << <<"lookup_line_row", addr>> >>]

----------------------------------------------------------------------------
(* The command table and the command loop of main.                         *)

COMMANDS ==
    << <<<<"l","i","s","t">>, "cmd_list", "print names of ALL types, or types containing a string">>,
       <<<<"i","n","f","o">>, "cmd_info", "print a summary of a type">>,
       <<<<"d","e","f">>, "cmd_def", "print a type as a pseudo-Rust definition">>,
       <<<<"s","i","z","e","o","f">>, "cmd_sizeof", "print size of type in bytes">>,
       <<<<"a","l","i","g","n","o","f">>, "cmd_alignof", "print alignment of type in bytes">>,
       <<<<"a","d","d","r","2","l","i","n","e">>, "cmd_addr2line", "look up line number information">> >>

(* lines 26-28: the trimmed line, its first token and the rest *)
SplitLine(l) ==
    LET t == trim(l)
        sp == split_once(t)
    IN  [line |-> t,
         cmd |-> IF IsSome(sp) THEN Unwrap(sp)[1] ELSE t,
         rest |-> IF IsSome(sp) THEN Unwrap(sp)[2] ELSE <<>>]

(* lines 44-49: the first entry of COMMANDS named cmd, or 0 *)
FindCommand(cmd) ==
    LET hit == {i \in 1..Len(COMMANDS) : COMMANDS[i][1] = cmd}
    IN  IF hit = {} THEN 0 ELSE CHOOSE i \in hit : \A j \in hit : i <= j

(* lines 37-42 *)
HelpOutput ==
    << <<"help_commands">> >>
    \o [i \in 1..Len(COMMANDS) |-> <<"help_entry", COMMANDS[i][1], COMMANDS[i][3]>>]

----------------------------------------------------------------------------
(* The snapshots the loader may hand over, and the lines a user may type.  *)

MaxHistory == 2

W(l0, l1, l2, l3) == <<l0, l1, l2, l3>>
MaxWord == W(65535, 65535, 65535, 65535)

gU32 == DebugInfoOffset(W(42, 0, 0, 0))
gBool == DebugInfoOffset(W(64, 0, 0, 0))
gPair == DebugInfoOffset(W(256, 0, 0, 0))
gT1 == DebugInfoOffset(W(512, 0, 0, 0))
gT2 == DebugInfoOffset(W(22136, 4660, 0, 0))
gT3 == DebugTypesOffset(W(0, 0, 1, 0))
gAnon == DebugInfoOffset(W(768, 0, 0, 0))
gOk == DebugInfoOffset(W(1024, 0, 0, 0))
gErr == DebugInfoOffset(W(1040, 0, 0, 0))
gE == DebugInfoOffset(W(1280, 0, 0, 0))
gO == DebugInfoOffset(W(1536, 0, 0, 0))
gZ == DebugInfoOffset(W(1792, 0, 0, 0))
gW == DebugInfoOffset(W(2048, 0, 0, 0))
gArr == DebugTypesOffset(MaxWord)
gArr2 == DebugTypesOffset(W(42, 0, 0, 0))
gPtr == DebugInfoOffset(W(2304, 0, 0, 0))
gSub == DebugInfoOffset(W(2560, 0, 0, 0))
gU == DebugInfoOffset(W(2816, 0, 0, 0))
gU2 == DebugTypesOffset(W(2816, 0, 0, 0))
gM == DebugInfoOffset(W(3072, 0, 0, 0))
gN == DebugInfoOffset(W(3328, 0, 0, 0))
gAbsent == DebugInfoOffset(W(51966, 48879, 57005, 0))

Field(name, ty_goff, location) == Member(Some(name), ty_goff, location, None, FALSE)

vOk == <<Some(0), Variant(Member(Some(<<"O","k">>), gOk, 0, Some(4), FALSE))>>
vMid == <<Some(1), Variant(Member(Some(<<"M","i","d">>), gPair, 0, None, FALSE))>>
vErr == <<None, Variant(Member(Some(<<"E","r","r">>), gErr, 0, None, FALSE))>>

(* Variants whose payload is no Struct: a Base, and an Array under a       *)
(* variant without a name; and a variant whose payload struct has a member *)
(* without a name.                                                         *)
vBad == <<Some(1), Variant(Member(Some(<<"B","a","d">>), gU32, 0, Some(4), FALSE))>>
vArr == <<Some(2), Variant(Member(None, gArr, 0, None, FALSE))>>
vRest == <<Some(3), Variant(Member(Some(<<"R","e","s","t">>), gAnon, 0, None, FALSE))>>

(* The iteration orders of the variant mapping of enum E. *)
VariantOrders ==
    { <<vErr, vOk>>, <<vOk, vErr>>, <<vOk, vErr, vMid>>, <<vOk, vMid>> }

Entry(goff, name, ty) == [goff |-> goff, name |-> name, ty |-> ty]

(* The encodings of Base entries, each with the name its entries carry,    *)
(* and their byte sizes: every pair of the two is an entry of a snapshot.  *)
Encodings ==
    << <<"Unsigned", <<"U","n","s","i","g","n","e","d">>>>, <<"Signed", <<"S","i","g","n","e","d">>>>, <<"Float", <<"F","l","o","a","t">>>>,
       <<"Boolean", <<"B","o","o","l","e","a","n">>>>, <<"UnsignedChar", <<"U","n","s","i","g","n","e","d","C","h","a","r">>>>,
       <<"SignedChar", <<"S","i","g","n","e","d","C","h","a","r">>>>, <<"Address", <<"A","d","d","r","e","s","s">>>> >>

ByteSizes == <<0, 1, 2, 3, 4, 8, 16>>

BaseEntries ==
    [k \in 1..(Len(Encodings) * Len(ByteSizes)) |->
        LET e == ((k - 1) \div Len(ByteSizes)) + 1
            z == ((k - 1) % Len(ByteSizes)) + 1
        IN  Entry(DebugTypesOffset(W(ByteSizes[z], e, 2, 0)), Some(Encodings[e][2]),
                  Base(Encodings[e][1], ByteSizes[z]))]

Snapshot(variants) ==
    [types |->
       << Entry(gU32, Some(<<"u","3","2">>), Base("Unsigned", 4)),
          Entry(gBool, Some(<<"b","o","o","l">>), Base("Boolean", 1)),
          Entry(gPair, Some(<<"P","a","i","r">>),
                Struct(<<"P","a","i","r">>, 8, Some(4), TRUE, <<>>,
                       (4 :> Field(<<"_","_","1">>, gBool, 4)) @@ (0 :> Field(<<"_","_","0">>, gU32, 0)))),
          Entry(gT1, Some(<<"T">>),
                Struct(<<"T">>, 4, Some(4), FALSE, << [name |-> <<"X">>, ty_goff |-> gU32] >>,
                       (0 :> Member(Some(<<"a">>), gU32, 0, Some(4), TRUE)))),
          Entry(gAnon, None,
                Struct(<<>>, 8, None, FALSE, <<>>,
                       (0 :> Member(None, gU32, 0, None, FALSE))
                       @@ (4 :> Field(<<"b">>, gBool, 4)))),
          Entry(gT2, Some(<<"T">>), Struct(<<"T">>, 0, None, FALSE, <<>>, <<>>)),
          Entry(gOk, Some(<<"O","k">>),
                Struct(<<"O","k">>, 8, Some(4), TRUE, <<>>, (4 :> Field(<<"_","_","0">>, gU32, 4)))),
          Entry(gErr, Some(<<"E","r","r">>),
                Struct(<<"E","r","r">>, 8, Some(4), FALSE, <<>>,
                       (5 :> Field(<<"f">>, gU32, 5)) @@ (4 :> Field(<<"e">>, gBool, 4)))),
          Entry(gE, Some(<<"E">>),
                Enum(<<"E">>, 8, Some(4), << [name |-> <<"X">>, ty_goff |-> gU32] >>,
                     ShapeMany(Member(None, gU32, 0, None, TRUE), variants))),
          Entry(gO, Some(<<"O">>),
                Enum(<<"O">>, 8, None, <<>>,
                     ShapeOne(Variant(Member(None, gAnon, 0, None, TRUE))))),
          Entry(gZ, Some(<<"Z">>), Enum(<<"Z">>, 0, None, <<>>, ShapeZero)),
          Entry(gW, Some(<<"W">>),
                Enum(<<"W">>, 4, Some(4), <<>>,
                     ShapeOne(Variant(Member(Some(<<"W">>), gU32, 0, Some(4), FALSE))))),
          Entry(gT3, Some(<<"T">>),
                CEnum(<<"T">>, 1, 1, (1 :> [name |-> <<"B">>, const_value |-> 1])
                                   @@ (0 :> [name |-> <<"A">>, const_value |-> 0]))),
          Entry(gArr, None, Array(gU32, 0, Some(4))),
          Entry(gArr2, None, Array(gArr, 0, None)),
          Entry(gPtr, Some(<<"*","u","3","2">>), Pointer(<<"*","u","3","2">>, gU32)),
          Entry(gSub, None, Subroutine(<<gU32, gBool>>, Some(gU32))),
          Entry(gU, Some(<<"U">>), Union(<<"U">>)),
          Entry(gU2, Some(<<"U">>), Base("Float", 8)),
          Entry(gM, Some(<<"M">>),
                Enum(<<"M">>, 8, Some(4), <<>>,
                     ShapeMany(Member(None, gU32, 0, None, TRUE), <<vErr, vOk, vBad, vArr, vMid>>))),
          Entry(gN, Some(<<"N">>),
                Enum(<<"N">>, 8, Some(4), <<>>,
                     ShapeMany(Member(None, gU32, 0, None, TRUE), <<vOk, vBad, vRest>>))) >>
       \o BaseEntries,
     rows |->
       << [addr |-> W(4096, 0, 0, 0),
           row |-> [file |-> <<"m","a","i","n",".","r","s">>, line |-> Some(10), column |-> Some(5)]],
          [addr |-> MaxWord,
           row |-> [file |-> <<"l","i","b",".","r","s">>, line |-> None, column |-> None]] >>]

Snapshots == {Snapshot(vs) : vs \in VariantOrders}

(* The goffs whose text a user may paste: both sections, offsets of fewer  *)
(* than 8, exactly 8 and more than 8 hexadecimal digits, up to the         *)
(* largest word.                                                           *)
Offsets ==
    { ZeroWord, W(42, 0, 0, 0), W(768, 0, 0, 0), W(52719, 171, 0, 0),
      W(22136, 4660, 0, 0), W(0, 0, 1, 0), W(51966, 48879, 57005, 0), MaxWord }

Goffs == {DebugInfoOffset(x) : x \in Offsets} \cup {DebugTypesOffset(x) : x \in Offsets}

GoffTexts == {GoffDisplay(g) : g \in Goffs}

Names ==
    { <<"u","3","2">>, <<"b","o","o","l">>, <<"P","a","i","r">>, <<"T">>, <<"E">>, <<"O">>, <<"Z">>, <<"W">>, <<"U">>,
      <<"*","u","3","2">>, <<"n","o","s","u","c","h">>, <<"t">> }

(* Texts that begin like a goff and are none. *)
BadGoffTexts ==
    { <<"<",".","d","e","b","u","g","_","i","n","f","o","+","0","x","0","0","0","0","0","0","2","a">>, <<"<",".","d","e","b","u","g","_","t","y","p","e","s","+","0","x">>, <<"<",".","d","e","b","u","g","_">>,
      <<"<",".","d","e","b","u","g","_","f","o","o","+","0","x","0","0","0","0","0","0","2","a",">">>, <<"<",".","d","e","b","u","g","_","i","n","f","o","+","4","2",">">>, <<"<",".","d","e","b","u","g","_",">">>,
      <<"<",".","d","e","b","u","g","_","i","n","f","o","+","0","x","z","z",">">>, <<"<",".","d","e","b","u","g","_","i","n","f","o","+","0","x",">">>, <<"<",".","d","e","b","u","g","_","t","y","p","e","s","+","0","x","-","1",">">>,
      <<"<",".","d","e","b","u","g","_","i","n","f","o","+","0","x","1","0","0","0","0","0","0","0","0","0","0","0","0","0","0","0","0",">">>, <<"<",".","d","e","b","u","g","_","t","y","p","e","s","+","0","x"," ","2","a",">">> }

(* Texts the goff parser takes although Display never produces them. *)
OddGoffTexts == { <<"<",".","d","e","b","u","g","_","i","n","f","o","+","0","x","+","2","A",">">>, <<"<",".","d","e","b","u","g","_","t","y","p","e","s","+","0","x","2","a",">">> }

QueryArgs == Names \cup GoffTexts \cup BadGoffTexts \cup OddGoffTexts

(* Names typed after def only. *)
DefArgs == {Encodings[e][2] : e \in 1..Len(Encodings)} \cup {<<"M">>, <<"N">>}

AddrArgs ==
    { <<"0","x","1","0","0","0">>, <<"4","0","9","6">>, <<"0","x","2","0","0","0">>, <<"a","b","c">>, <<"0","x">>, <<"0","x","z","z">>, <<"+","4","0","9","6">>, <<"0","x","+","1","0","0","0">>,
      <<"-","1">>, <<"0","X","1","0","0","0">>, <<" ","0","x","1","0","0","0">>, <<"1","8","4","4","6","7","4","4","0","7","3","7","0","9","5","5","1","6","1","5">>,
      <<"1","8","4","4","6","7","4","4","0","7","3","7","0","9","5","5","1","6","1","6">>, <<"0","x","f","f","f","f","f","f","f","f","f","f","f","f","f","f","f","f">>, <<"0","x","1","0","0","0","0","0","0","0","0","0","0","0","0","0","0","0","0">>,
      <<"0","x","1","0","0","0"," ","1">>, <<"1","e","3">> }

ListArgs == { <<"T">>, <<"u">>, <<"z","z","z">>, <<" ","T">>, <<"a","n","o","n","y","m","o","u","s">>, <<"3">>, <<"<">> }

Lines ==
    { <<>>, <<" "," ">>, <<"e","x","i","t">>, <<" ","e","x","i","t"," ","n","o","w">>, <<"h","e","l","p">>, <<"h","e","l","p"," ","m","e">>, <<"q","u","i","t">>, <<"E","x","i","t">>,
      <<"l","i","s","t","s"," ","T">>, <<"?">>, <<"l","i","s","t">>, <<"i","n","f","o">>, <<"d","e","f">>, <<"s","i","z","e","o","f"," ">>, <<"a","l","i","g","n","o","f">>,
      <<"a","d","d","r","2","l","i","n","e">>, <<" "," ","i","n","f","o"," "," "," ","T"," "," ">>, <<"d", "e", "f", "\t", "E">> }
    \cup {<<"l","i","s","t"," ">> \o a : a \in ListArgs}
    \cup {<<"i","n","f","o"," ">> \o a : a \in QueryArgs}
    \cup {<<"d","e","f"," ">> \o a : a \in QueryArgs \cup DefArgs}
    \cup {<<"s","i","z","e","o","f"," ">> \o a : a \in QueryArgs}
    \cup {<<"a","l","i","g","n","o","f"," ">> \o a : a \in QueryArgs}
    \cup {<<"a","d","d","r","2","l","i","n","e"," ">> \o a : a \in AddrArgs}

----------------------------------------------------------------------------
(* main *)

Init ==
    /\ db \in Snapshots
    /\ pc = "reading"
    /\ readline = <<"None">>
    /\ out = << <<"loaded_types_found", type_count(db)>>, <<"to_quit">> >>
    /\ calls = <<>>
    /\ history = 0

(* lines 29-31: an empty line is skipped *)
ReadEmptyLine ==
    /\ pc = "reading"
    /\ \E l \in Lines :
          /\ SplitLine(l).line = <<>>
          /\ readline' = <<"Ok", l>>
    /\ out' = <<>>
    /\ calls' = <<>>
    /\ UNCHANGED <<db, pc, history>>

(* line 36 *)
ReadExit ==
    /\ pc = "reading"
    /\ history < MaxHistory
    /\ \E l \in Lines :
          /\ SplitLine(l).line # <<>>
          /\ SplitLine(l).cmd = <<"e","x","i","t">>
          /\ readline' = <<"Ok", l>>
    /\ history' = history + 1
    /\ out' = <<>>
    /\ calls' = <<>>
    /\ pc' = "exited"
    /\ UNCHANGED db

(* lines 37-42 *)
ReadHelp ==
    /\ pc = "reading"
    /\ history < MaxHistory
    /\ \E l \in Lines :
          /\ SplitLine(l).line # <<>>
          /\ SplitLine(l).cmd = <<"h","e","l","p">>
          /\ readline' = <<"Ok", l>>
    /\ history' = history + 1
    /\ out' = HelpOutput
    /\ calls' = <<>>
    /\ UNCHANGED <<db, pc>>

(* lines 44-49: line l names the entry of COMMANDS whose function is imp, *)
(* and r is what imp(&everything, rest) does.                              *)
Dispatch(l, imp, r) ==
    LET sl == SplitLine(l)
        i == FindCommand(sl.cmd)
    IN  /\ pc = "reading"
        /\ history < MaxHistory
        /\ sl.line # <<>>
        /\ sl.cmd \notin {<<"e","x","i","t">>, <<"h","e","l","p">>}
        /\ i # 0
        /\ COMMANDS[i][2] = imp
        /\ readline' = <<"Ok", l>>
        /\ history' = history + 1
        /\ out' = r.out
        /\ calls' = << <<"handler", imp, sl.rest>> >> \o r.calls
        /\ pc' = IF r.ok THEN "reading" ELSE "panicked"
        /\ UNCHANGED db

CmdList == \E l \in Lines : Dispatch(l, "cmd_list", cmd_list(db, SplitLine(l).rest))
CmdInfo == \E l \in Lines : Dispatch(l, "cmd_info", cmd_info(db, SplitLine(l).rest))
CmdDef == \E l \in Lines : Dispatch(l, "cmd_def", cmd_def(db, SplitLine(l).rest))
CmdSizeof == \E l \in Lines : Dispatch(l, "cmd_sizeof", cmd_sizeof(db, SplitLine(l).rest))
CmdAlignof == \E l \in Lines : Dispatch(l, "cmd_alignof", cmd_alignof(db, SplitLine(l).rest))
CmdAddr2line ==
    \E l \in Lines : Dispatch(l, "cmd_addr2line", cmd_addr2line(db, SplitLine(l).rest))

(* lines 50-51 *)
ReadUnknown ==
    /\ pc = "reading"
    /\ history < MaxHistory
    /\ \E l \in Lines :
          LET sl == SplitLine(l)
          IN  /\ sl.line # <<>>
              /\ sl.cmd \notin {<<"e","x","i","t">>, <<"h","e","l","p">>}
              /\ FindCommand(sl.cmd) = 0
              /\ readline' = <<"Ok", l>>
              /\ out' = << <<"unknown_command", sl.cmd>>, <<"for_help_try_help">> >>
    /\ history' = history + 1
    /\ calls' = <<>>
    /\ UNCHANGED <<db, pc>>

(* lines 55-58 *)
ReadInterrupted ==
    /\ pc = "reading"
    /\ readline' = <<"Interrupted">>
    /\ out' = << <<"ctrl_c">> >>
    /\ calls' = <<>>
    /\ UNCHANGED <<db, pc, history>>

(* lines 59-62: end of input or another read error *)
ReadError ==
    /\ pc = "reading"
    /\ readline' = <<"Err">>
    /\ out' = << <<"read_error">> >>
    /\ calls' = <<>>
    /\ pc' = "exited"
    /\ UNCHANGED <<db, history>>

Next ==
    \/ ReadEmptyLine
    \/ ReadExit
    \/ ReadHelp
    \/ CmdList
    \/ CmdInfo
    \/ CmdDef
    \/ CmdSizeof
    \/ CmdAlignof
    \/ CmdAddr2line
    \/ ReadUnknown
    \/ ReadInterrupted
    \/ ReadError

Spec == Init /\ [][Next]_vars

----------------------------------------------------------------------------
(* What the claims read off a state.                                       *)

QueryImps == {"cmd_info", "cmd_def", "cmd_sizeof", "cmd_alignof"}

(* The last iteration called a handler. *)
Handled == Len(calls) >= 1 /\ calls[1][1] = "handler"

(* The last iteration ran the query fan-out. *)
Queried == Handled /\ calls[1][2] \in QueryImps

(* The argument the fan-out parsed. *)
QueryArg == trim(calls[1][3])

(* The last iteration looked its argument up in the snapshot. *)
LookedUp == Queried /\ Len(calls) >= 2

(* The entries the lookup of the last iteration resolved to. *)
Resolved ==
    IF calls[2][1] = "types_by_name" THEN types_by_name(db, calls[2][2])
    ELSE LET t == type_from_goff(db, calls[2][2])
         IN  IF IsSome(t) THEN << <<calls[2][2], Unwrap(t)>> >> ELSE <<>>

WithTag(seq, tags) == SelectSeq(seq, LAMBDA e : e[1] \in tags)

Count(seq, tag) == Len(WithTag(seq, {tag}))

(* The line typed was a query command followed by text a. *)
TypedQuery(a) ==
    \E c \in {<<"i","n","f","o"," ">>, <<"d","e","f"," ">>, <<"s","i","z","e","o","f"," ">>, <<"a","l","i","g","n","o","f"," ">>} : readline = <<"Ok", c \o a>>

----------------------------------------------------------------------------
(* C1: for every goff, of either section and any offset of a machine word, *)
(* the text Goff's Display gives is parsed back by parse_type_name into    *)
(* ParsedTypeName::Goff of the same section and the same offset: after a   *)
(* query typed with that text, the lookup the fan-out makes is             *)
(* type_from_goff of that very goff.                                       *)
C1_GoffTextRoundTrip ==
    \A g \in Goffs :
        TypedQuery(GoffDisplay(g)) => LookedUp /\ calls[2] = <<"type_from_goff", g>>

(* A goff of the types section with a 16-digit offset was typed and found. *)
C1_Witness ==
    /\ readline = <<"Ok", <<"s","i","z","e","o","f"," ">> \o GoffDisplay(gArr)>>
    /\ LookedUp
    /\ calls[2] = <<"type_from_goff", gArr>>
    /\ Count(out, "header") = 1

----------------------------------------------------------------------------
(* C6: when a well-formed name or goff resolves to no entry, the fan-out   *)
(* prints exactly one "No types found." report, prints no header, never    *)
(* invokes the callback, and returns to the command loop, which stays at   *)
(* its read of the next line.                                              *)
C6_ZeroMatches ==
    (LookedUp /\ Resolved = <<>>) =>
        /\ out = << <<"no_types_found">> >>
        /\ Len(calls) = 2
        /\ pc = "reading"

(* A name and a goff that resolve to nothing. *)
C6_Witness ==
    /\ LookedUp
    /\ Resolved = <<>>
    /\ calls[2] = <<"type_from_goff", gAbsent>>
    /\ out = << <<"no_types_found">> >>
    /\ pc = "reading"

----------------------------------------------------------------------------
----------------------------------------------------------------------------
(* C3 as stated: list with a non-empty argument prints the line of a type  *)
(* exactly when the type has a name and the name contains the argument     *)
(* (never the line of an anonymous type); with an empty argument it prints *)
(* the line of every type.                                                 *)
ListExpected(d, args) ==
    LET keep == SelectSeq(d.types,
                          LAMBDA e : args = <<>>
                                     \/ (IsSome(e.name) /\ contains(Unwrap(e.name), args)))
    IN  [i \in 1..Len(keep) |-> <<"list_line", NamedGoff(d, keep[i].goff)>>]

C3_ListFilter ==
    (Handled /\ calls[1][2] = "cmd_list") => out = ListExpected(db, calls[1][3])

----------------------------------------------------------------------------
(* C4 as stated: def on an Enum of shape Many renders every variant of the *)
(* mapping exactly once and renders the variant with the absent key last,  *)
(* after every variant with an explicit discriminant, whatever the         *)
(* iteration order of the mapping.                                         *)
VariantName(var) ==
    IF IsSome(var.member.name) THEN Unwrap(var.member.name) ELSE <<"A","N","O","N">>

C4_ExplicitBeforeDefault ==
    (/\ Handled
     /\ calls[1][2] = "cmd_def"
     /\ Len(calls) = 3
     /\ Len(Resolved) = 1
     /\ Resolved[1][2].kind = "Enum"
     /\ Resolved[1][2].shape.tag = "Many"
     /\ pc = "reading") =>
        LET vs == Resolved[1][2].shape.variants
            printed == WithTag(out, {"def_variant_name"})
        IN  /\ Len(printed) = Len(vs)
            /\ \A k \in 1..Len(vs) :
                  /\ Len(SelectSeq(printed, LAMBDA e : e[2] = VariantName(vs[k][2]))) = 1
                  /\ ~IsSome(vs[k][1]) => printed[Len(printed)][2] = VariantName(vs[k][2])

----------------------------------------------------------------------------
(* C5 as stated: an argument of the fan-out that begins with <.debug_ is   *)
(* never looked up as a name, and when it is no well-formed goff text (no  *)
(* closing '>', an unrecognized section tag, or a hex payload that does    *)
(* not decode) the fan-out prints one report echoing the offending text    *)
(* and nothing else, and consults neither lookup nor the callback.         *)
GoffPayload(a) ==
    LET rest == SliceFrom(a, 8)
    IN  IF starts_with(rest, <<"i","n","f","o","+","0","x">>) THEN Some(Slice(rest, 7, Len(rest) - 1))
        ELSE IF starts_with(rest, <<"t","y","p","e","s","+","0","x">>) THEN Some(Slice(rest, 8, Len(rest) - 1))
        ELSE None

MalformedGoffText(a) ==
    \/ ~ends_with(a, <<">">>)
    \/ ~IsSome(GoffPayload(a))
    \/ ~IsSome(from_str_radix(Unwrap(GoffPayload(a)), 16))

C5_MalformedGoffRejected ==
    (Queried /\ starts_with(QueryArg, <<"<",".","d","e","b","u","g","_">>)) =>
        /\ Count(calls, "types_by_name") = 0
        /\ MalformedGoffText(QueryArg) =>
              /\ Len(calls) = 1
              /\ Len(out) = 1
              /\ out[1][1] \in {"cant_parse_hex", "bad_offset_reference"}
              /\ contains(QueryArg, out[1][2])

----------------------------------------------------------------------------
(* C7: which arguments addr2line accepts.                                  *)

(* s is a number of the radix that fits 64 bits: digits and nothing else *)
IsNumber(s, radix) ==
    /\ s # <<>>
    /\ \A i \in 1..Len(s) : IsSome(to_digit(s[i], radix))
    /\ IsSome(ParseDigits(s, radix, ZeroWord))

StripPlus(s) == IF s # <<>> /\ Head(s) = "+" THEN Tail(s) ELSE s

(* 0x followed by a hexadecimal number, or a plain decimal number *)
PlainAddress(a) ==
    \/ starts_with(a, <<"0","x">>) /\ IsNumber(SliceFrom(a, 2), 16)
    \/ IsNumber(a, 10)

(* the same, the number optionally preceded by one '+' *)
SignedAddress(a) ==
    \/ starts_with(a, <<"0","x">>) /\ IsNumber(StripPlus(SliceFrom(a, 2)), 16)
    \/ IsNumber(StripPlus(a), 10)

AddressValue(a) ==
    IF starts_with(a, <<"0","x">>)
    THEN Unwrap(ParseDigits(StripPlus(SliceFrom(a, 2)), 16, ZeroWord))
    ELSE Unwrap(ParseDigits(StripPlus(a), 10, ZeroWord))

(* What addr2line does with argument a when it accepts it, and when not. *)
AddressLookedUp(a) ==
    /\ calls = << calls[1], <<"lookup_line_row", AddressValue(a)>> >>
    /\ ~IsSome(lookup_line_row(db, AddressValue(a)))
          => out = << <<"no_line_number_information">> >>
    /\ IsSome(lookup_line_row(db, AddressValue(a)))
          => /\ Len(out) = 4
             /\ out[1] = <<"a2l_file", Unwrap(lookup_line_row(db, AddressValue(a))).file>>

AddressRejected(a) ==
    /\ Len(calls) = 1
    /\ out = << <<"cant_parse_address", a>> >>

(* C7 as stated: the argument is accepted exactly when it is 0x followed   *)
(* by a hexadecimal number or is a plain decimal number, within 64 bits;   *)
(* every other argument is reported and is not looked up.                  *)
C7_PlainAddressOnly ==
    (Handled /\ calls[1][2] = "cmd_addr2line") =>
        IF PlainAddress(calls[1][3]) THEN AddressLookedUp(calls[1][3])
        ELSE AddressRejected(calls[1][3])

(* C7 amended: the argument, as handed over by the command loop, is        *)
(* accepted exactly when it is 0x followed by an optional '+' and a        *)
(* hexadecimal number, or an optional '+' followed by a decimal number,    *)
(* the number within 64 bits.  Every other argument is reported with the   *)
(* argument echoed, lookup_line_row is not called and no file:line:column  *)
(* is printed.  An accepted argument has lookup_line_row called exactly    *)
(* once with the parsed value, and an absent row is reported as "no line   *)
(* number information available".                                          *)
C7_AddressParsing ==
    (Handled /\ calls[1][2] = "cmd_addr2line") =>
        IF SignedAddress(calls[1][3]) THEN AddressLookedUp(calls[1][3])
        ELSE AddressRejected(calls[1][3])

(* A hexadecimal address with a sign was accepted and its row printed. *)
C7_Witness ==
    /\ readline = <<"Ok", <<"a","d","d","r","2","l","i","n","e"," ","0","x","+","1","0","0","0">>>>
    /\ calls[2] = <<"lookup_line_row", W(4096, 0, 0, 0)>>
    /\ out[1] = <<"a2l_file", <<"m","a","i","n",".","r","s">>>>

----------------------------------------------------------------------------
(* C8 as stated: a non-empty line whose first token is neither exit nor    *)
(* help nor a name of COMMANDS calls no handler, prints the unknown        *)
(* command report and the hint, and leaves the loop reading; a line whose  *)
(* first token names an entry of COMMANDS calls that entry's handler       *)
(* exactly once with the rest of the line; and the session ends only by    *)
(* exit or by a read error other than an interrupt, main returning Ok.     *)
C8_CommandLoop ==
    /\ (readline[1] = "Ok" /\ SplitLine(readline[2]).line # <<>>) =>
          LET sl == SplitLine(readline[2])
              i == FindCommand(sl.cmd)
          IN  /\ (sl.cmd \notin {<<"e","x","i","t">>, <<"h","e","l","p">>} /\ i = 0) =>
                    /\ calls = <<>>
                    /\ out = << <<"unknown_command", sl.cmd>>, <<"for_help_try_help">> >>
                    /\ pc = "reading"
              /\ (sl.cmd \notin {<<"e","x","i","t">>, <<"h","e","l","p">>} /\ i # 0) =>
                    WithTag(calls, {"handler"}) = << <<"handler", COMMANDS[i][2], sl.rest>> >>
    /\ pc # "reading" =>
          /\ pc = "exited"
          /\ \/ readline = <<"Err">>
             \/ readline[1] = "Ok" /\ SplitLine(readline[2]).cmd = <<"e","x","i","t">>

----------------------------------------------------------------------------
(* C9 as stated: the names help prints are exactly the first tokens the    *)
(* command loop accepts, that is, does not report as unknown: the names of *)
(* COMMANDS, help and exit.                                                *)
C9_HelpListsEveryCommand ==
    (readline[1] = "Ok" /\ SplitLine(readline[2]).cmd = <<"h","e","l","p">>) =>
        \A l \in Lines :
            LET c == SplitLine(l).cmd
            IN  c # <<>> =>
                  ((c \in {<<"e","x","i","t">>, <<"h","e","l","p">>} \/ FindCommand(c) # 0)
                     <=> \E i \in 1..Len(out) : out[i][1] = "help_entry" /\ out[i][2] = c)

----------------------------------------------------------------------------
(* C10 as stated: def on an Enum of shape One or Many whose variants all   *)
(* carry a Struct renders, after each variant name, the member list the    *)
(* Struct case renders for that struct (the same delimiters, the same      *)
(* names with ANON for a member without a name, the same type names, in    *)
(* ascending offset order), and the rendering runs to its end.             *)
MemberTags ==
    {"def_struct_paren_open", "def_tuple_member", "def_struct_paren_close",
     "def_struct_brace_open", "def_named_member", "def_struct_brace_close",
     "def_variant_paren_open", "def_variant_tuple_member", "def_variant_paren_close",
     "def_variant_brace_open", "def_variant_named_member", "def_variant_brace_close"}

(* A token of a member list without the case that printed it. *)
MemberItem(e) ==
    CASE e[1] \in {"def_struct_paren_open", "def_variant_paren_open"} -> <<"(">>
      [] e[1] \in {"def_struct_paren_close", "def_variant_paren_close"} -> <<")">>
      [] e[1] \in {"def_struct_brace_open", "def_variant_brace_open"} -> <<"{">>
      [] e[1] \in {"def_struct_brace_close", "def_variant_brace_close"} -> <<"}">>
      [] e[1] \in {"def_tuple_member", "def_variant_tuple_member"} -> <<"type", e[2]>>
      [] e[1] \in {"def_named_member", "def_variant_named_member"} -> <<"field", e[2], e[3]>>

MemberList(o) == LET m == WithTag(o, MemberTags) IN [i \in 1..Len(m) |-> MemberItem(m[i])]

VariantsOf(shape) ==
    IF shape.tag = "One" THEN <<shape.v>>
    ELSE [i \in 1..Len(shape.variants) |-> shape.variants[i][2]]

PayloadOf(var) == type_from_goff(db, var.member.ty_goff)

RECURSIVE StructMemberLists(_, _)
StructMemberLists(vs, i) ==
    IF i > Len(vs) THEN <<>>
    ELSE MemberList(DefStructBody(db, Unwrap(PayloadOf(vs[i]))).out)
         \o StructMemberLists(vs, i + 1)

C10_InlineBodyAsStruct ==
    (/\ Handled
     /\ calls[1][2] = "cmd_def"
     /\ Len(calls) = 3
     /\ Len(Resolved) = 1
     /\ Resolved[1][2].kind = "Enum"
     /\ Resolved[1][2].shape.tag \in {"One", "Many"}
     /\ \A i \in 1..Len(VariantsOf(Resolved[1][2].shape)) :
           LET p == PayloadOf(VariantsOf(Resolved[1][2].shape)[i])
           IN  IsSome(p) /\ Unwrap(p).kind = "Struct") =>
        /\ pc = "reading"
        /\ MemberList(out) = StructMemberLists(VariantsOf(Resolved[1][2].shape), 1)

----------------------------------------------------------------------------
(* C11: def on Base entries renders, for each, the primitive name the      *)
(* fixed table gives its (encoding, byte size): () for byte size 0 under   *)
(* every encoding; u8..u128, i8..i128, f32, f64, bool, char, c_uchar and   *)
(* c_schar for the listed pairs; and for every other pair the Unhandled    *)
(* marker carrying that encoding and that size.  The rendering never       *)
(* fails.                                                                  *)
PrimTable ==
    { <<"Unsigned", 1, <<"u","8">>>>, <<"Unsigned", 2, <<"u","1","6">>>>, <<"Unsigned", 4, <<"u","3","2">>>>,
      <<"Unsigned", 8, <<"u","6","4">>>>, <<"Unsigned", 16, <<"u","1","2","8">>>>,
      <<"Signed", 1, <<"i","8">>>>, <<"Signed", 2, <<"i","1","6">>>>, <<"Signed", 4, <<"i","3","2">>>>,
      <<"Signed", 8, <<"i","6","4">>>>, <<"Signed", 16, <<"i","1","2","8">>>>,
      <<"Float", 4, <<"f","3","2">>>>, <<"Float", 8, <<"f","6","4">>>>,
      <<"Boolean", 1, <<"b","o","o","l">>>>,
      <<"UnsignedChar", 4, <<"c","h","a","r">>>>, <<"UnsignedChar", 1, <<"c","_","u","c","h","a","r">>>>,
      <<"SignedChar", 1, <<"c","_","s","c","h","a","r">>>> }

ExpectedPrim(t) ==
    LET rows == {r \in PrimTable : r[1] = t.encoding /\ r[2] = t.byte_size}
    IN  IF t.byte_size = 0 THEN <<"def_prim", <<"(",")">>>>
        ELSE IF rows # {} THEN <<"def_prim", (CHOOSE r \in rows : TRUE)[3]>>
        ELSE <<"def_prim_unhandled", t.encoding, t.byte_size>>

(* The last iteration ran def and every entry it resolved to is a Base. *)
DefOfBases ==
    /\ LookedUp
    /\ calls[1][2] = "cmd_def"
    /\ Resolved # <<>>
    /\ \A i \in 1..Len(Resolved) : Resolved[i][2].kind = "Base"

C11_BaseNameTable ==
    DefOfBases =>
        /\ pc = "reading"
        /\ Len(calls) = 2 + Len(Resolved)
        /\ WithTag(out, {"def_type_alias", "def_prim", "def_prim_unhandled", "def_semicolon"})
             = [i \in 1..(3 * Len(Resolved)) |->
                    CASE i % 3 = 1 -> <<"def_type_alias">>
                      [] i % 3 = 2 -> ExpectedPrim(Resolved[(i + 1) \div 3][2])
                      [] OTHER -> <<"def_semicolon">>]

(* The seven entries of the UnsignedChar encoding were rendered: () for    *)
(* size 0, c_uchar, char, and the marker for a size outside the table.     *)
C11_Witness ==
    /\ readline = <<"Ok", <<"d","e","f"," ","U","n","s","i","g","n","e","d","C","h","a","r">>>>
    /\ DefOfBases
    /\ Len(Resolved) = 7
    /\ WithTag(out, {"def_prim", "def_prim_unhandled"})
         = << <<"def_prim", <<"(",")">>>>, <<"def_prim", <<"c","_","u","c","h","a","r">>>>,
              <<"def_prim_unhandled", "UnsignedChar", 2>>,
              <<"def_prim_unhandled", "UnsignedChar", 3>>,
              <<"def_prim", <<"c","h","a","r">>>>,
              <<"def_prim_unhandled", "UnsignedChar", 8>>,
              <<"def_prim_unhandled", "UnsignedChar", 16>> >>

----------------------------------------------------------------------------
(* C12 as stated: def on an Enum of shape One or Many with a variant whose *)
(* payload goff resolves to an entry that is no Struct renders that        *)
(* variant as its name followed by the inline placeholder, renders every   *)
(* variant of the enum, the ones after it included, and emits the closing  *)
(* brace; the rendering is never aborted.                                  *)
NonStructPayload(var) == IsSome(PayloadOf(var)) /\ Unwrap(PayloadOf(var)).kind # "Struct"

(* The names, placeholders, commas and closing brace of a complete         *)
(* rendering of the variants vs.                                           *)
RECURSIVE VariantSkeleton(_, _)
VariantSkeleton(vs, i) ==
    IF i > Len(vs) THEN << <<"def_enum_close">> >>
    ELSE << <<"def_variant_name", VariantName(vs[i])>> >>
         \o (IF NonStructPayload(vs[i]) THEN << <<"def_variant_unexpected_weirdness">> >>
             ELSE <<>>)
         \o << <<"def_variant_comma">> >>
         \o VariantSkeleton(vs, i + 1)

DefOfWeirdEnum ==
    /\ Handled
    /\ calls[1][2] = "cmd_def"
    /\ Len(calls) = 3
    /\ Len(Resolved) = 1
    /\ Resolved[1][2].kind = "Enum"
    /\ Resolved[1][2].shape.tag \in {"One", "Many"}
    /\ \E i \in 1..Len(VariantsOf(Resolved[1][2].shape)) :
          NonStructPayload(VariantsOf(Resolved[1][2].shape)[i])

C12_PlaceholderAndContinue ==
    DefOfWeirdEnum =>
        /\ pc = "reading"
        /\ WithTag(out, {"def_variant_name", "def_variant_unexpected_weirdness",
                         "def_variant_comma", "def_enum_close"})
             = VariantSkeleton(VariantsOf(Resolved[1][2].shape), 1)

----------------------------------------------------------------------------
(* C13: sizeof (resp. alignof) prints, for every entry its argument        *)
(* resolves to, exactly one result line, in resolution order: the number   *)
(* when the size (resp. alignment) computation returns a value, and the    *)
(* text "unsized" (resp. "no alignment information") when it returns       *)
(* absent; an absent result is never printed as a number.                  *)
ResultTags == {"sizeof_bytes", "sizeof_unsized", "alignof_bytes", "alignof_no_information"}

ResultLines == WithTag(out, ResultTags)

C13_OneResultLinePerEntry ==
    (LookedUp /\ calls[1][2] \in {"cmd_sizeof", "cmd_alignof"}) =>
        /\ pc = "reading"
        /\ Len(calls) = 2 + Len(Resolved)
        /\ Len(ResultLines) = Len(Resolved)
        /\ \A i \in 1..Len(Resolved) :
              LET t == Resolved[i][2]
                  sz == byte_size(db, t)
                  al == alignment(db, t)
              IN  IF calls[1][2] = "cmd_sizeof"
                  THEN /\ IsSome(sz) => ResultLines[i] = <<"sizeof_bytes", Unwrap(sz)>>
                       /\ ~IsSome(sz) => ResultLines[i] = <<"sizeof_unsized">>
                  ELSE /\ IsSome(al) => ResultLines[i] = <<"alignof_bytes", Unwrap(al)>>
                       /\ ~IsSome(al) => ResultLines[i] = <<"alignof_no_information">>

(* sizeof U: the union has no size and the 8-byte float has one. *)
C13_Witness ==
    /\ readline = <<"Ok", <<"s","i","z","e","o","f"," ","U">>>>
    /\ LookedUp
    /\ Len(Resolved) = 2
    /\ ~IsSome(byte_size(db, Resolved[1][2]))
    /\ ResultLines = << <<"sizeof_unsized">>, <<"sizeof_bytes", 8>> >>

====
